---- MODULE Spec2Model ----
(***************************************************************************)
(* A model of the FileConverter repository (src/conversion.py, src/app.py). *)
(*                                                                         *)
(* Three groups of state, each with its own specification:                 *)
(*   SpecParse : _parse_page_ranges and split_pdf (pure functions applied  *)
(*               to every bounded range string and page count);            *)
(*   SpecConv  : _convert_with_temp_file with the docx_to_pdf and          *)
(*               pdf_to_docx logic, two requests running concurrently on   *)
(*               one file system and one process environment;              *)
(*   SpecApp   : the Streamlit script of app.py (upload, reorder, convert  *)
(*               button) with merge_pdfs.                                  *)
(* Text is a sequence of one-character strings.                            *)
(***************************************************************************)
EXTENDS Integers, Sequences, FiniteSets, TLC

VARIABLES
    ranges_string,   \* split_pdf / _parse_page_ranges argument (text)
    max_pages,       \* len(doc): the page count of the opened document
    ppc,             \* "input" | "parsed" | "split"
    parsed,          \* outcome of _parse_page_ranges
    zip_entries,     \* entries written to the archive by split_pdf, in order
    environ,         \* os.environ of the server process
    fs,              \* the files that exist: path -> content
    dirs,            \* the temporary directories that exist (their numbers)
    ndirs,           \* how many temporary directories were ever made
    cpc,             \* per request: where its conversion call stands
    call,            \* per request: the conversion and uploaded_file.name
    temp_dir,        \* per request: the directory of its TemporaryDirectory()
    tool,            \* per request: the subprocess.run call and its outcome
    result,          \* per request: what the call returned or raised
    conversion_choice,  \* app.py: the selectbox
    uploaded_content,   \* app.py: the files in the uploader, in upload order
    order,              \* the arrangement the user dragged the merge list into
    last,               \* what the conversion function did on the last press
    ui                  \* what the page shows after the last press

pvars == <<ranges_string, max_pages, ppc, parsed, zip_entries>>
cvars == <<environ, fs, dirs, ndirs, cpc, call, temp_dir, tool, result>>
avars == <<conversion_choice, uploaded_content, order, last, ui>>
notp == <<cvars, avars>>
notc == <<pvars, avars>>
nota == <<pvars, cvars>>

(***************************************************************************)
(* Bounds of the model.                                                    *)
(***************************************************************************)
MaxLen == 5          \* longest range string
MaxPages == 2        \* largest document page count
MaxCalls == 3        \* conversion calls (temporary directories) in one run
MaxFiles == 3        \* most files in the uploader

Alphabet == {"0", "1", "2", "-", ",", " ", "+"}
Digits == {"0", "1", "2", "3", "4", "5", "6", "7", "8", "9"}

Texts(n) == UNION {[1..k -> Alphabet] : k \in 0..n}

(***************************************************************************)
(* Python built-ins used by conversion.py, on texts.                       *)
(***************************************************************************)
DigitVal(c) ==
    CASE c = "0" -> 0 [] c = "1" -> 1 [] c = "2" -> 2 [] c = "3" -> 3
      [] c = "4" -> 4 [] c = "5" -> 5 [] c = "6" -> 6 [] c = "7" -> 7
      [] c = "8" -> 8 [] c = "9" -> 9

DigitChar(d) ==
    CASE d = 0 -> "0" [] d = 1 -> "1" [] d = 2 -> "2" [] d = 3 -> "3"
      [] d = 4 -> "4" [] d = 5 -> "5" [] d = 6 -> "6" [] d = 7 -> "7"
      [] d = 8 -> "8" [] d = 9 -> "9"

\* str.strip(): leading and trailing whitespace removed
RECURSIVE LStrip(_)
LStrip(s) == IF s # <<>> /\ Head(s) = " " THEN LStrip(Tail(s)) ELSE s

RECURSIVE RStrip(_)
RStrip(s) ==
    IF s # <<>> /\ s[Len(s)] = " " THEN RStrip(SubSeq(s, 1, Len(s) - 1)) ELSE s

Strip(s) == RStrip(LStrip(s))

\* str.split(sep): the pieces between the occurrences of sep, empty ones kept
RECURSIVE PySplit(_, _)
PySplit(s, sep) ==
    IF \A i \in 1..Len(s) : s[i] # sep
    THEN <<s>>
    ELSE LET i == CHOOSE j \in 1..Len(s) :
                      s[j] = sep /\ \A k \in 1..(j - 1) : s[k] # sep
         IN  <<SubSeq(s, 1, i - 1)>> \o PySplit(SubSeq(s, i + 1, Len(s)), sep)

\* value of a non-empty digit string, base 10
RECURSIVE DecValue(_)
DecValue(s) ==
    IF s = <<>> THEN 0
    ELSE 10 * DecValue(SubSeq(s, 1, Len(s) - 1)) + DigitVal(s[Len(s)])

\* int(text): surrounding whitespace dropped, an optional sign, then digits;
\* anything else raises ValueError (ok = FALSE)
PyInt(s) ==
    LET t == Strip(s)
        signed == t # <<>> /\ Head(t) \in {"+", "-"}
        body == IF signed THEN Tail(t) ELSE t
    IN  IF body # <<>> /\ \A i \in 1..Len(body) : body[i] \in Digits
        THEN [ok |-> TRUE,
              val |-> IF signed /\ Head(t) = "-" THEN 0 - DecValue(body)
                      ELSE DecValue(body)]
        ELSE [ok |-> FALSE, val |-> 0]

\* str(n) for n >= 0
RECURSIVE PyStr(_)
PyStr(n) == IF n < 10 THEN <<DigitChar(n)>> ELSE PyStr(n \div 10) \o <<DigitChar(n % 10)>>

\* range(a, b) as a list
PyRange(a, b) == [i \in 1..(IF b > a THEN b - a ELSE 0) |-> a + i - 1]

\* sorted(list(set(l)))
RECURSIVE SortedSet(_)
SortedSet(S) ==
    IF S = {} THEN <<>>
    ELSE LET m == CHOOSE x \in S : \A y \in S : x <= y
         IN  <<m>> \o SortedSet(S \ {m})

SortedDistinct(l) == SortedSet({l[i] : i \in 1..Len(l)})

(***************************************************************************)
(* _parse_page_ranges                                                      *)
(***************************************************************************)
Raise(msg) == [ok |-> FALSE, groups |-> <<>>, err |-> msg]

RangeInBounds_NoSinglePage(start, end, n) == 0 < start /\ start < end /\ end <= n

\* the range test of line 104
RangeInBounds(start, end, n) == 0 < start /\ start <= end /\ end <= n

PageInBounds_NoLower(page_num, n) == page_num <= n

\* the page test of line 112
PageInBounds(page_num, n) == 0 < page_num /\ page_num <= n

\* one iteration of the loop of lines 99-120: the page list of a part, or a raise
ParsePart(part, n) ==
    IF \E i \in 1..Len(part) : part[i] = "-"
    THEN LET pieces == PySplit(part, "-")
             a == PyInt(pieces[1])
             b == IF Len(pieces) >= 2 THEN PyInt(pieces[2]) ELSE [ok |-> FALSE, val |-> 0]
         IN  IF Len(pieces) = 2 /\ a.ok /\ b.ok /\ RangeInBounds(a.val, b.val, n)
             THEN [ok |-> TRUE, pages |-> PyRange(a.val - 1, b.val), err |-> "none"]
             ELSE [ok |-> FALSE, pages |-> <<>>, err |-> "Invalid range format"]
    ELSE LET p == PyInt(part)
         IN  IF p.ok /\ PageInBounds(p.val, n)
             THEN [ok |-> TRUE, pages |-> <<p.val - 1>>, err |-> "none"]
             ELSE [ok |-> FALSE, pages |-> <<>>, err |-> "Invalid page number format"]

\* line 97: the stripped, non-blank parts
Parts(s) ==
    LET raw == PySplit(s, ",")
        stripped == [i \in 1..Len(raw) |-> Strip(raw[i])]
    IN  SelectSeq(stripped, LAMBDA p : p # <<>>)

RECURSIVE ParseLoop(_, _, _)
ParseLoop(parts, n, acc) ==
    IF parts = <<>> THEN [ok |-> TRUE, groups |-> acc, err |-> "none"]
    ELSE LET r == ParsePart(Head(parts), n)
         IN  IF ~r.ok THEN Raise(r.err)
             ELSE ParseLoop(Tail(parts), n,
                            IF r.pages # <<>> THEN Append(acc, SortedDistinct(r.pages))
                            ELSE acc)

parse_page_ranges(s, n) ==
    IF Strip(s) = <<>> THEN Raise("Page range cannot be empty.")
    ELSE LET r == ParseLoop(Parts(s), n, <<>>)
         IN  IF ~r.ok THEN r
             ELSE IF r.groups = <<>> THEN Raise("No valid pages found")
             ELSE r

(***************************************************************************)
(* split_pdf                                                               *)
(***************************************************************************)
\* the document: page p of the upload is the number p (0-based index + 1)
Doc(n) == [i \in 1..n |-> i]

\* new_doc.insert_pdf(doc, from_page_list=page_list): the listed pages, in order
InsertPdf(doc, page_list) == [i \in 1..Len(page_list) |-> doc[page_list[i] + 1]]

T_split_part == <<"s", "p", "l", "i", "t", "_", "p", "a", "r", "t", "_">>
T_pages == <<"_", "p", "a", "g", "e", "s", "_">>
T_pdf == <<".", "p", "d", "f">>

PartName_ZeroBased(i, page_list) ==
    T_split_part \o PyStr(i) \o T_pages \o PyStr(page_list[1] + 1)
        \o <<"-">> \o PyStr(page_list[Len(page_list)] + 1) \o T_pdf

\* line 138: f"split_part_{i+1}_pages_{page_list[0]+1}-{page_list[-1]+1}.pdf"
PartName(i, page_list) ==
    T_split_part \o PyStr(i + 1) \o T_pages \o PyStr(page_list[1] + 1)
        \o <<"-">> \o PyStr(page_list[Len(page_list)] + 1) \o T_pdf

\* lines 134-140, i being enumerate's 0-based index
SplitEntries(doc, groups) ==
    [k \in 1..Len(groups) |->
        [name |-> PartName(k - 1, groups[k]), pages |-> InsertPdf(doc, groups[k])]]

NoParse == [ok |-> FALSE, groups |-> <<>>, err |-> "not called"]

ParseInit ==
    /\ ranges_string \in Texts(MaxLen)
    /\ max_pages \in 1..MaxPages
    /\ ppc = "input"
    /\ parsed = NoParse
    /\ zip_entries = <<>>

\* a direct call of _parse_page_ranges(ranges_string, max_pages)
ParsePageRanges ==
    /\ ppc = "input"
    /\ parsed' = parse_page_ranges(ranges_string, max_pages)
    /\ ppc' = "parsed"
    /\ UNCHANGED <<ranges_string, max_pages, zip_entries, notp>>

\* split_pdf(uploaded_file, ranges_string) on a document of max_pages pages
SplitPdf ==
    /\ ppc = "input"
    /\ LET r == parse_page_ranges(ranges_string, max_pages)
       IN  /\ parsed' = r
           /\ zip_entries' = IF r.ok THEN SplitEntries(Doc(max_pages), r.groups) ELSE <<>>
    /\ ppc' = "split"
    /\ UNCHANGED <<ranges_string, max_pages, notp>>


(***************************************************************************)
(* Paths.  A path is the sequence of its components from the root, a       *)
(* component the pair <<stem, extension>> that os.path.splitext gives.     *)
(* An uploaded file's name is the text the client sent: relative or        *)
(* absolute, possibly with ".." components, possibly empty.                *)
(***************************************************************************)
Requests == {1, 2}

C_tmp == <<"tmp", "">>
C_up == <<"..", "">>

UploadNames ==
    { [abs |-> FALSE, comps |-> <<<<"a", "docx">>>>],               \* a.docx
      [abs |-> FALSE, comps |-> <<<<"a", "pdf">>>>],                \* a.pdf
      [abs |-> FALSE, comps |-> <<>>],                              \* ""
      [abs |-> FALSE, comps |-> <<C_up, <<"x", "docx">>>>],         \* ../x.docx
      [abs |-> TRUE,  comps |-> <<C_tmp, <<"y", "docx">>>>] }       \* /tmp/y.docx

\* tempfile.TemporaryDirectory(): /tmp/<unique name>
TempPath(d) == <<C_tmp, <<"d" \o ToString(d), "">>>>

\* os.path.join(temp_dir, name): an absolute name discards temp_dir
PathJoin(dir, name) == IF name.abs THEN name.comps ELSE dir \o name.comps

\* the file the operating system opens for a path: ".." steps to the parent
RECURSIVE Resolve(_, _)
Resolve(path, acc) ==
    IF path = <<>> THEN acc
    ELSE IF Head(path) = C_up
         THEN Resolve(Tail(path), IF acc = <<>> THEN acc ELSE SubSeq(acc, 1, Len(acc) - 1))
         ELSE Resolve(Tail(path), Append(acc, Head(path)))

IsPrefix(p, q) == Len(p) <= Len(q) /\ SubSeq(q, 1, Len(p)) = p

\* os.path.basename of a joined path: the text after the last separator
BaseName(name) == IF name.comps = <<>> THEN <<"", "">> ELSE name.comps[Len(name.comps)]

ExistingDirs(ds) == {<<>>, <<C_tmp>>} \cup {TempPath(d) : d \in ds}

\* open(path, "wb"): "ok", or the OSError it raises
OpenForWrite(path, ds) ==
    LET p == Resolve(path, <<>>)
    IN  IF p \in ExistingDirs(ds) THEN "IsADirectoryError"
        ELSE IF SubSeq(p, 1, Len(p) - 1) \notin ExistingDirs(ds) THEN "FileNotFoundError"
        ELSE "ok"

Cleanup_KeepFiles(files, d) == files

\* TemporaryDirectory.__exit__: the directory and all below it are removed
Cleanup(files, d) ==
    [p \in {q \in DOMAIN files : ~IsPrefix(TempPath(d), q)} |-> files[p]]

WriteFile(files, path, content) ==
    [p \in DOMAIN files \cup {path} |-> IF p = path THEN content ELSE files[p]]

(***************************************************************************)
(* docx_to_pdf / pdf_to_docx through _convert_with_temp_file               *)
(***************************************************************************)
Kinds == {"docx_to_pdf", "pdf_to_docx"}
Stderrs == {"font error", ""}

\* line 19
InputPath(r) == PathJoin(TempPath(temp_dir[r]), call[r].name)

\* lines 166-168 (docx_to_pdf) and line 33 (pdf_to_docx)
OutputPath(r) ==
    IF call[r].kind = "docx_to_pdf"
    THEN Append(TempPath(temp_dir[r]), <<BaseName(call[r].name)[1], "pdf">>)
    ELSE Append(TempPath(temp_dir[r]), <<"converted", "docx">>)

ToolError_Generic(outcome, stderr) ==
    CASE outcome = "TimeoutExpired" ->
            [type |-> "RuntimeError", msg |-> "LibreOffice conversion timed out", detail |-> ""]
      [] OTHER ->
            [type |-> "RuntimeError", msg |-> "LibreOffice conversion failed", detail |-> stderr]

\* lines 184-192: the error raised for each way subprocess.run can fail
ToolError(outcome, stderr) ==
    CASE outcome = "FileNotFoundError" ->
            [type |-> "RuntimeError", msg |-> "LibreOffice command not found", detail |-> ""]
      [] outcome = "CalledProcessError" ->
            [type |-> "RuntimeError", msg |-> "LibreOffice conversion failed", detail |-> stderr]
      [] outcome = "TimeoutExpired" ->
            [type |-> "RuntimeError", msg |-> "LibreOffice conversion timed out", detail |-> ""]

\* lines 194-198
OutputMissingError ==
    [type |-> "FileNotFoundError", msg |-> "LibreOffice ran but failed to create the output PDF file",
     detail |-> ""]

OsError(type) == [type |-> type, msg |-> "open", detail |-> ""]

NoTool == [started |-> FALSE, env |-> <<>>, outcome |-> "none", stderr |-> "", created |-> FALSE]
NoResult == [status |-> "none", data |-> <<>>, filename |-> <<"", "">>, err |-> OsError("none")]
NoCall == [kind |-> "none", name |-> [abs |-> FALSE, comps |-> <<>>]]

\* line 6 of app.py: XDG_RUNTIME_DIR keeps the host's value or gets the default
XdgDefault == <<C_tmp, <<"runtime-appuser", "">>>>
Environs ==
    { [HOME |-> <<<<"home", "">>, <<"appuser", "">>>>, XDG_RUNTIME_DIR |-> x] :
        x \in {XdgDefault, <<<<"run", "">>, <<"user", "">>>>} }

\* subprocess.run(...) without env=: the child inherits os.environ
ChildEnv(r) == environ

ConvInit ==
    /\ environ \in Environs
    /\ fs = <<>>
    /\ dirs = {}
    /\ ndirs = 0
    /\ cpc = [r \in Requests |-> "idle"]
    /\ call = [r \in Requests |-> NoCall]
    /\ temp_dir = [r \in Requests |-> 0]
    /\ tool = [r \in Requests |-> NoTool]
    /\ result = [r \in Requests |-> NoResult]

\* the exception leaves the with-block: the directory is removed, the call raises
RaiseFrom(r, files, err) ==
    /\ fs' = Cleanup(files, temp_dir[r])
    /\ dirs' = dirs \ {temp_dir[r]}
    /\ cpc' = [cpc EXCEPT ![r] = "raised"]
    /\ result' = [result EXCEPT ![r] = [NoResult EXCEPT !.status = "raised", !.err = err]]

\* a request calls docx_to_pdf or pdf_to_docx: line 18 makes the directory
Enter(r) ==
    /\ cpc[r] = "idle"
    /\ ndirs < MaxCalls
    /\ \E k \in Kinds, n \in UploadNames : call' = [call EXCEPT ![r] = [kind |-> k, name |-> n]]
    /\ ndirs' = ndirs + 1
    /\ temp_dir' = [temp_dir EXCEPT ![r] = ndirs + 1]
    /\ dirs' = dirs \cup {ndirs + 1}
    /\ cpc' = [cpc EXCEPT ![r] = "stage"]
    /\ tool' = [tool EXCEPT ![r] = NoTool]
    /\ result' = [result EXCEPT ![r] = NoResult]
    /\ UNCHANGED <<environ, fs, notc>>

\* lines 19-21: the upload is written to input_path
Stage(r) ==
    /\ cpc[r] = "stage"
    /\ LET o == OpenForWrite(InputPath(r), dirs)
       IN  IF o = "ok"
           THEN /\ fs' = WriteFile(fs, Resolve(InputPath(r), <<>>), <<"upload", r>>)
                /\ cpc' = [cpc EXCEPT ![r] = "logic"]
                /\ UNCHANGED <<dirs, result>>
           ELSE RaiseFrom(r, fs, OsError(o))
    /\ UNCHANGED <<environ, ndirs, call, temp_dir, tool, notc>>

\* lines 171-183: soffice is started
ToolStart(r) ==
    /\ cpc[r] = "logic"
    /\ call[r].kind = "docx_to_pdf"
    /\ tool' = [tool EXCEPT ![r] = [NoTool EXCEPT !.started = TRUE, !.env = ChildEnv(r)]]
    /\ cpc' = [cpc EXCEPT ![r] = "tool"]
    /\ UNCHANGED <<environ, fs, dirs, ndirs, call, temp_dir, result, notc>>

\* lines 184-192: subprocess.run raises
ToolFails(r) ==
    /\ cpc[r] = "tool"
    /\ \E o \in {"FileNotFoundError", "CalledProcessError", "TimeoutExpired"}, e \in Stderrs :
          /\ o # "CalledProcessError" => e = ""
          /\ tool' = [tool EXCEPT ![r].outcome = o, ![r].stderr = e]
          /\ RaiseFrom(r, fs, ToolError(o, e))
    /\ UNCHANGED <<environ, ndirs, call, temp_dir, notc>>

\* soffice exits with status 0, having written <outdir>/<stem>.pdf or not;
\* lines 194-200 then look for output_path
ToolExitsZero(r) ==
    /\ cpc[r] = "tool"
    /\ \E made \in BOOLEAN :
          LET files == IF made THEN WriteFile(fs, OutputPath(r), <<"pdf", r>>) ELSE fs
          IN  /\ tool' = [tool EXCEPT ![r].outcome = "ok", ![r].created = made]
              /\ IF OutputPath(r) \in DOMAIN files
                 THEN /\ fs' = files
                      /\ cpc' = [cpc EXCEPT ![r] = "collect"]
                      /\ UNCHANGED <<dirs, result>>
                 ELSE RaiseFrom(r, files, OutputMissingError)
    /\ UNCHANGED <<environ, ndirs, call, temp_dir, notc>>

\* lines 33-39: pdf2docx converts in process: it writes converted.docx, or
\* returns having written nothing, or raises
PdfToDocxLogic(r) ==
    /\ cpc[r] = "logic"
    /\ call[r].kind = "pdf_to_docx"
    /\ \/ /\ \E made \in BOOLEAN :
                fs' = IF made THEN WriteFile(fs, OutputPath(r), <<"docx", r>>) ELSE fs
          /\ cpc' = [cpc EXCEPT ![r] = "collect"]
          /\ UNCHANGED <<dirs, result>>
       \/ RaiseFrom(r, fs, [type |-> "Exception", msg |-> "pdf2docx", detail |-> ""])
    /\ UNCHANGED <<environ, ndirs, call, temp_dir, tool, notc>>

\* lines 25-29: the output is read, the with-block ends, the call returns
Collect(r) ==
    /\ cpc[r] = "collect"
    /\ IF OutputPath(r) \in DOMAIN fs
       THEN /\ fs' = Cleanup(fs, temp_dir[r])
            /\ dirs' = dirs \ {temp_dir[r]}
            /\ cpc' = [cpc EXCEPT ![r] = "returned"]
            /\ result' = [result EXCEPT ![r] =
                    [NoResult EXCEPT !.status = "returned", !.data = fs[OutputPath(r)],
                                     !.filename = OutputPath(r)[Len(OutputPath(r))]]]
       ELSE RaiseFrom(r, fs, OsError("FileNotFoundError"))
    /\ UNCHANGED <<environ, ndirs, call, temp_dir, tool, notc>>

\* the caller is done with the result; the session may convert again
Done(r) ==
    /\ cpc[r] \in {"returned", "raised"}
    /\ cpc' = [cpc EXCEPT ![r] = "idle"]
    /\ UNCHANGED <<environ, fs, dirs, ndirs, call, temp_dir, tool, result, notc>>

(***************************************************************************)
(* app.py: the Streamlit script.  Every interaction reruns it; the         *)
(* actions are the interactions.                                           *)
(***************************************************************************)
\* the keys of CONVERSION_CONFIG, lines 11-78
ConversionNames ==
    {"PDF to DOCX", "Image to Image", "Image to PDF", "Merge PDFs", "Split PDF",
     "PDF to Image", "DOCX to PDF"}

FileNames == {"a.pdf", "b.pdf"}

PageCounts == {1, 2}

UploadedFiles == [name : FileNames, npages : PageCounts]

\* the pages of the i-th uploaded file: page k of file i is <<i, k>>
FilePages(i) == [k \in 1..uploaded_content[i].npages |-> <<i, k>>]

Perms(n) == {f \in [1..n -> 1..n] : \A i, j \in 1..n : f[i] = f[j] => i = j}

Identity(n) == [i \in 1..n |-> i]

\* accept_multiple_files, line 87
MultipleFiles(c) == c = "Merge PDFs"

RECURSIVE Concat(_)
Concat(ss) == IF ss = <<>> THEN <<>> ELSE Head(ss) \o Concat(Tail(ss))

\* lines 57-70: merge_pdfs on a list of uploaded files (their indices)
merge_pdfs(files) ==
    IF Len(files) < 2
    THEN [raised |-> TRUE, len |-> 0, pages |-> <<>>]
    ELSE LET pages == Concat([i \in 1..Len(files) |-> FilePages(files[i])])
         IN  [raised |-> FALSE, len |-> 1 + Len(pages), pages |-> pages]

\* line 102: sort_items returns the names in the arrangement on screen
SortedFilenames == [i \in 1..Len(order) |-> uploaded_content[order[i]].name]

\* line 96: {f.name: f for f in uploaded_content}; a later file of the same
\* name replaces an earlier one
FileMap(name) ==
    CHOOSE i \in 1..Len(uploaded_content) :
        /\ uploaded_content[i].name = name
        /\ \A j \in 1..Len(uploaded_content) : uploaded_content[j].name = name => j <= i

\* lines 90-109: files_to_process, as indices into uploaded_content
FilesToProcess ==
    IF conversion_choice = "Merge PDFs" /\ Len(uploaded_content) > 1
    THEN [i \in 1..Len(order) |-> FileMap(SortedFilenames[i])]
    ELSE Identity(Len(uploaded_content))

HandleResult_NoEmptyCheck(r) ==
    IF r.raised THEN [pressed |-> TRUE, error |-> TRUE, download |-> FALSE]
    ELSE [pressed |-> TRUE, error |-> FALSE, download |-> TRUE]

\* lines 118-130: what the page shows for the outcome of the conversion
HandleResult(r) ==
    IF r.raised THEN [pressed |-> TRUE, error |-> TRUE, download |-> FALSE]
    ELSE IF r.len = 0 THEN [pressed |-> TRUE, error |-> TRUE, download |-> FALSE]
    ELSE [pressed |-> TRUE, error |-> FALSE, download |-> TRUE]

NoLast == [raised |-> FALSE, len |-> 0, pages |-> <<>>]
NoUi == [pressed |-> FALSE, error |-> FALSE, download |-> FALSE]

AppInit ==
    /\ conversion_choice = "PDF to DOCX"
    /\ uploaded_content = <<>>
    /\ order = <<>>
    /\ last = NoLast
    /\ ui = NoUi

\* line 80: another conversion is chosen; its uploader starts empty
Choose ==
    /\ \E c \in ConversionNames : c # conversion_choice /\ conversion_choice' = c
    /\ uploaded_content' = <<>>
    /\ order' = <<>>
    /\ last' = NoLast
    /\ ui' = NoUi
    /\ UNCHANGED nota

\* lines 84-88: files are put into the uploader
Upload ==
    /\ \E n \in 1..(IF MultipleFiles(conversion_choice) THEN MaxFiles ELSE 1) :
          \E fl \in [1..n -> UploadedFiles] :
              /\ uploaded_content' = fl
              /\ order' = Identity(n)
    /\ last' = NoLast
    /\ ui' = NoUi
    /\ UNCHANGED <<conversion_choice, nota>>

\* lines 93-106: the user drags the merge list into another arrangement
Reorder ==
    /\ conversion_choice = "Merge PDFs"
    /\ Len(uploaded_content) > 1
    /\ \E f \in Perms(Len(uploaded_content)) : f # order /\ order' = f
    /\ last' = NoLast
    /\ ui' = NoUi
    /\ UNCHANGED <<conversion_choice, uploaded_content, nota>>

\* lines 116-130: the convert button is pressed
Convert ==
    /\ uploaded_content # <<>>
    /\ IF conversion_choice = "Merge PDFs"
       THEN last' = merge_pdfs(FilesToProcess)
       ELSE \E raised \in BOOLEAN, len \in 0..2 :
               /\ raised => len = 0
               /\ last' = [raised |-> raised, len |-> len, pages |-> <<>>]
    /\ ui' = HandleResult(last')
    /\ UNCHANGED <<conversion_choice, uploaded_content, order, nota>>

AppIdle ==
    /\ conversion_choice = "off"
    /\ uploaded_content = <<>>
    /\ order = <<>>
    /\ last = NoLast
    /\ ui = NoUi

vars == <<pvars, cvars, avars>>

ParseIdle ==
    /\ ppc = "off"
    /\ ranges_string = <<>>
    /\ max_pages = 1
    /\ parsed = NoParse
    /\ zip_entries = <<>>

ConvIdle ==
    /\ environ = CHOOSE e \in Environs : e.XDG_RUNTIME_DIR = XdgDefault
    /\ fs = <<>>
    /\ dirs = {}
    /\ ndirs = 0
    /\ cpc = [r \in Requests |-> "off"]
    /\ call = [r \in Requests |-> NoCall]
    /\ temp_dir = [r \in Requests |-> 0]
    /\ tool = [r \in Requests |-> NoTool]
    /\ result = [r \in Requests |-> NoResult]

NextParse == ParsePageRanges \/ SplitPdf

InitOfParse == ParseInit /\ ConvIdle /\ AppIdle

SpecParse == InitOfParse /\ [][NextParse]_vars

NextConv ==
    \E r \in Requests :
        \/ Enter(r)
        \/ Stage(r)
        \/ ToolStart(r)
        \/ ToolFails(r)
        \/ ToolExitsZero(r)
        \/ PdfToDocxLogic(r)
        \/ Collect(r)
        \/ Done(r)

InitOfConv == ConvInit /\ ParseIdle /\ AppIdle

SpecConv == InitOfConv /\ [][NextConv]_vars

NextApp == Choose \/ Upload \/ Reorder \/ Convert

InitOfApp == AppInit /\ ParseIdle /\ ConvIdle

SpecApp == InitOfApp /\ [][NextApp]_vars

(***************************************************************************)
(* Claims about _parse_page_ranges and split_pdf.  The clause grammar of   *)
(* the claims is written here on its own, not through the parser above.    *)
(***************************************************************************)
ParseCalled == ppc \in {"parsed", "split"}

\* the comma-separated clauses of a text, blank ones included
RECURSIVE ClauseTexts(_)
ClauseTexts(s) ==
    IF \A i \in 1..Len(s) : s[i] # ","
    THEN <<s>>
    ELSE LET i == CHOOSE j \in 1..Len(s) : s[j] = "," /\ \A k \in 1..(j - 1) : s[k] # ","
         IN  <<SubSeq(s, 1, i - 1)>> \o ClauseTexts(SubSeq(s, i + 1, Len(s)))

RECURSIVE Trim(_)
Trim(s) ==
    IF s = <<>> THEN s
    ELSE IF Head(s) = " " THEN Trim(Tail(s))
    ELSE IF s[Len(s)] = " " THEN Trim(SubSeq(s, 1, Len(s) - 1))
    ELSE s

IsBlank(s) == \A i \in 1..Len(s) : s[i] = " "

\* a plain number: one or more digits
IsNumber(t) == t # <<>> /\ \A i \in 1..Len(t) : t[i] \in Digits

\* an integer literal: optional blanks, an optional "+", digits
IsLiteral(t) ==
    LET u == Trim(t)
    IN  \/ IsNumber(u)
        \/ u # <<>> /\ Head(u) = "+" /\ IsNumber(Tail(u))

LiteralValue(t) ==
    LET u == Trim(t) IN DecValue(IF Head(u) = "+" THEN Tail(u) ELSE u)

\* the place of the dash of a clause "N-M", 0 when the clause has none such
DashAt(t, IsNum(_)) ==
    IF \E i \in 1..Len(t) :
          t[i] = "-" /\ IsNum(SubSeq(t, 1, i - 1)) /\ IsNum(SubSeq(t, i + 1, Len(t)))
    THEN CHOOSE i \in 1..Len(t) :
          t[i] = "-" /\ IsNum(SubSeq(t, 1, i - 1)) /\ IsNum(SubSeq(t, i + 1, Len(t)))
    ELSE 0

\* the clause is `N` or `N-M`, numbers being recognised by IsNum
HasClauseForm(t, IsNum(_)) == IsNum(t) \/ DashAt(t, IsNum) # 0

ClauseFirst(t, IsNum(_)) ==
    IF IsNum(t) THEN LiteralValue(t) ELSE LiteralValue(SubSeq(t, 1, DashAt(t, IsNum) - 1))

ClauseLast(t, IsNum(_)) ==
    IF IsNum(t) THEN LiteralValue(t)
    ELSE LiteralValue(SubSeq(t, DashAt(t, IsNum) + 1, Len(t)))

\* 1 <= N <= M <= n
ClauseInRange(t, n, IsNum(_)) ==
    /\ 1 <= ClauseFirst(t, IsNum)
    /\ ClauseFirst(t, IsNum) <= ClauseLast(t, IsNum)
    /\ ClauseLast(t, IsNum) <= n

\* C2's precondition: every clause, blanks around it aside, is `N` or `N-M`
\* in plain digits with 1 <= N <= M <= n
AllClausesValid(s, n) ==
    \A k \in 1..Len(ClauseTexts(s)) :
        LET t == Trim(ClauseTexts(s)[k])
        IN  HasClauseForm(t, IsNumber) /\ ClauseInRange(t, n, IsNumber)

\* the group a valid clause stands for: N-1 .. M-1 ascending
ExpectedGroup(t) ==
    LET lo == ClauseFirst(Trim(t), IsNumber)
        hi == ClauseLast(Trim(t), IsNumber)
    IN  [j \in 1..(hi - lo + 1) |-> lo - 1 + j - 1]

\* C2: a range string made only of valid clauses `N` / `N-M` parses to one
\* group per clause, in clause order, the group of a clause being exactly
\* the ascending list N-1 .. M-1.
C2_GroupPerClause ==
    (ParseCalled /\ AllClausesValid(ranges_string, max_pages)) =>
        /\ parsed.ok
        /\ Len(parsed.groups) = Len(ClauseTexts(ranges_string))
        /\ \A k \in 1..Len(parsed.groups) :
              parsed.groups[k] = ExpectedGroup(ClauseTexts(ranges_string)[k])

\* a parse of two valid clauses, the first a page after the second's range
C2_Witness ==
    /\ ppc = "parsed"
    /\ AllClausesValid(ranges_string, max_pages)
    /\ Len(parsed.groups) = 2
    /\ Len(parsed.groups[2]) = 2
    /\ parsed.groups[1][1] > parsed.groups[2][1]

\* a clause that makes the parse fail: not `N` / `N-M`, or out of range
ClauseBad(t, n) == ~HasClauseForm(t, IsLiteral) \/ ~ClauseInRange(t, n, IsLiteral)

\* the failure condition as the claim states it: a blank clause is a clause
\* that is not of the form `N` or `N-M`
MustFailAsClaimed(s, n) ==
    \/ IsBlank(s)
    \/ \E k \in 1..Len(ClauseTexts(s)) : ClauseBad(ClauseTexts(s)[k], n)

\* the failure condition of the code: blank clauses are skipped, and the
\* parse fails when nothing is left
MustFailAmended(s, n) ==
    \/ IsBlank(s)
    \/ \A k \in 1..Len(ClauseTexts(s)) : IsBlank(ClauseTexts(s)[k])
    \/ \E k \in 1..Len(ClauseTexts(s)) :
          ~IsBlank(ClauseTexts(s)[k]) /\ ClauseBad(ClauseTexts(s)[k], n)

ParseFailed == ~parsed.ok /\ parsed.groups = <<>>

SeqMin(l) == CHOOSE x \in {l[i] : i \in 1..Len(l)} : \A j \in 1..Len(l) : x <= l[j]
SeqMax(l) == CHOOSE x \in {l[i] : i \in 1..Len(l)} : \A j \in 1..Len(l) : x >= l[j]

\* split_part_<i>_pages_<first>-<last>.pdf
ExpectedName(i, firstpage, lastpage) ==
    T_split_part \o PyStr(i) \o T_pages \o PyStr(firstpage) \o <<"-">> \o PyStr(lastpage)
        \o T_pdf

CallEnded(r) == cpc[r] \in {"returned", "raised"}

InsideDir(p, d) == IsPrefix(TempPath(d), p)

\* C1: once a call of docx_to_pdf or pdf_to_docx has returned or raised, on
\* whatever path, the temporary directory it allocated and every file in it
\* no longer exist.
C1_WorkspaceRemoved ==
    \A r \in Requests :
        CallEnded(r) =>
            /\ temp_dir[r] \notin dirs
            /\ \A p \in DOMAIN fs : ~InsideDir(p, temp_dir[r])

\* one call has returned its output while another raised after soffice failed
C1_Witness ==
    \E r1, r2 \in Requests :
        /\ cpc[r1] = "returned"
        /\ result[r1].data = <<"pdf", r1>>
        /\ cpc[r2] = "raised"
        /\ tool[r2].outcome = "CalledProcessError"

\* the class a caller reads off the error of a failed call
ClassOfError(err) ==
    CASE err.msg = "LibreOffice command not found" -> "NotFound"
      [] err.msg = "LibreOffice conversion timed out" -> "TimedOut"
      [] err.msg = "LibreOffice conversion failed" -> "Failed"
      [] OTHER -> "Other"

ClassOfOutcome(o) ==
    CASE o = "FileNotFoundError" -> "NotFound"
      [] o = "TimeoutExpired" -> "TimedOut"
      [] o = "CalledProcessError" -> "Failed"
      [] o = "ok" -> "Success"

\* C4: each outcome of the soffice process gets exactly one class: not found
\* -> NotFound (never Failed), timeout -> TimedOut, non-zero exit -> Failed
\* with the captured stderr, zero exit -> none of the three; the three reach
\* the caller as different errors.
C4_OutcomeClassified ==
    \A r \in Requests :
        (tool[r].outcome # "none" /\ cpc[r] # "tool") =>
            IF tool[r].outcome = "ok"
            THEN result[r].status = "raised" =>
                    ClassOfError(result[r].err) = "Other"
            ELSE /\ result[r].status = "raised"
                 /\ ClassOfError(result[r].err) = ClassOfOutcome(tool[r].outcome)
                 /\ tool[r].outcome = "CalledProcessError" =>
                        result[r].err.detail = tool[r].stderr

\* soffice was not on the PATH of one call and exited non-zero with output on
\* stderr in the other
C4_Witness ==
    \E r1, r2 \in Requests :
        /\ cpc[r1] = "raised" /\ tool[r1].outcome = "FileNotFoundError"
        /\ cpc[r2] = "raised" /\ tool[r2].outcome = "CalledProcessError"
        /\ tool[r2].stderr # ""
        /\ result[r1].err # result[r2].err

\* C5: when soffice exits with status 0 without having created the output
\* file, docx_to_pdf raises the output-missing error and returns nothing,
\* whatever the name of the input.
C5_OutputMissingRaised ==
    \A r \in Requests :
        (tool[r].outcome = "ok" /\ ~tool[r].created) =>
            /\ result[r].status = "raised"
            /\ result[r].err = OutputMissingError

NameRejected(n) ==
    \/ n.comps = <<>>
    \/ n.abs
    \/ \E i \in 1..Len(n.comps) : n.comps[i] = C_up

\* C6: staging rejects an empty name and a name with a path-traversal
\* sequence: nothing is written for it, the call fails, and every file
\* written lies inside a workspace directory.
C6_StagingRejectsTraversal ==
    /\ \A r \in Requests :
          (cpc[r] \notin {"idle", "stage"} /\ NameRejected(call[r].name)) =>
              result[r].status = "raised"
    /\ \A p \in DOMAIN fs : \E d \in dirs : InsideDir(p, d)

\* C7: two conversions running soffice at the same time use different
\* temporary directories, and each soffice runs with environment overrides of
\* its own: its home directory is its request's workspace and no path of
\* the environment is shared with the other.
C7_IsolatedToolEnvironments ==
    \A r1, r2 \in Requests :
        (r1 # r2 /\ cpc[r1] = "tool" /\ cpc[r2] = "tool") =>
            /\ temp_dir[r1] # temp_dir[r2]
            /\ tool[r1].env.HOME = TempPath(temp_dir[r1])
            /\ tool[r2].env.HOME = TempPath(temp_dir[r2])
            /\ tool[r1].env.XDG_RUNTIME_DIR # tool[r2].env.XDG_RUNTIME_DIR

(***************************************************************************)
(* Claims about the page of app.py (SpecApp).                              *)
(***************************************************************************)
\* C8: after the button is pressed, a download is offered exactly when the
\* conversion raised nothing and returned at least one byte; otherwise, an
\* empty output included, an error is shown and no download is offered.
C8_EmptyOutputIsFailure ==
    ui.pressed =>
        /\ ui.download <=> (~last.raised /\ last.len > 0)
        /\ ~ui.download => ui.error
        /\ (~last.raised /\ last.len = 0) => (ui.error /\ ~ui.download)

\* a conversion returned without raising, with no bytes
C8_Witness ==
    /\ ui.pressed
    /\ ~last.raised
    /\ last.len = 0
    /\ ui.error
    /\ ~ui.download

\* C9: merging k >= 2 uploads in the arrangement the user chose yields the
\* pages of the 1st file of the arrangement, then of the 2nd, and so on,
\* uploads of the same name included.
C9_MergeInChosenOrder ==
    (ui.pressed /\ conversion_choice = "Merge PDFs" /\ Len(uploaded_content) >= 2) =>
        /\ ~last.raised
        /\ last.pages = Concat([i \in 1..Len(order) |-> FilePages(order[i])])

====
